---- MODULE Spec2Model ----
(***************************************************************************)
(* oauth2l: command-line utility for fetching/inspecting credentials.      *)
(* State-machine model of src/oauth2l/__init__.py: the four command        *)
(* handlers (fetch, header, info, test), the acquisition protocol          *)
(* _FetchCredentials, token introspection _GetTokenInfo, the formatter     *)
(* _Format and the top-level handler main.                                 *)
(*                                                                         *)
(* The collaborators outside the repository (apitools' GetCredentials,     *)
(* credentials.refresh, MakeRequest, the file system) are an environment   *)
(* that answers each call nondeterministically.  The answer given to a     *)
(* call is recorded in `world`, so that every invocation in one behaviour  *)
(* runs against the same snapshot of the outside world.                    *)
(***************************************************************************)
EXTENDS Integers, Sequences, FiniteSets, TLC

VARIABLES
    args,    \* args[r]: the parsed argparse namespace of invocation r
    pc,      \* pc[r]: where invocation r stands
    locals,  \* locals[r]: local variables of _FetchCredentials
    cred,    \* cred[r]: the credentials object held by invocation r
    info,    \* info[r]: the last result of _GetTokenInfo, as a sequence of 0 or 1
    ret,     \* ret[r]: the value returned by args.func(args)
    exc,     \* exc[r]: the exception in flight
    stdout,  \* stdout[r]: the strings given to print(), in order
    exit,    \* exit[r]: the process exit status, as a sequence of 0 or 1
    calls,   \* calls[r]: the calls made to the outside collaborators, in order
    world    \* the answers the outside world has given so far

vars == <<args, pc, locals, cred, info, ret, exc, stdout, exit, calls, world>>

-----------------------------------------------------------------------------
(* Bounds of the model *)

MaxTok == 2
MaxScopes == 1
MaxScopeList == 2

-----------------------------------------------------------------------------
(* Strings *)

StartsWith(s, prefix) ==
    /\ Len(s) >= Len(prefix)
    /\ SubSeq(s, 1, Len(prefix)) = prefix

Quote(s) == "\"" \o s \o "\""

TokenNames == <<"ya29.a", "ya29.b", "ya29.c", "ya29.d">>
Tokens == { TokenNames[i] : i \in 1..MaxTok }

ScopeArgs == {"bigquery", "https://www.googleapis.com/auth/drive"}

RECURSIVE SeqsUpTo(_, _)
SeqsUpTo(S, n) ==
    IF n = 0 THEN { <<>> }
    ELSE LET shorter == SeqsUpTo(S, n - 1)
         IN  shorter \cup { Append(q, x) : q \in shorter, x \in S }

-----------------------------------------------------------------------------
(* Exceptions.  A function that may raise returns [exc, val]; exc = NoExc  *)
(* means it returned val.                                                  *)

NoExc == [type |-> "", msg |-> ""]
Exc(type, msg) == [type |-> type, msg |-> msg]
Raised(e) == e # NoExc

\* The error taxonomy of the design, over the Python exception classes.
IsConfigurationError(e) == e.type \in {"ValueError", "IOError"}
IsTransportError(e) == e.type \in {"HttpError", "HttpLib2Error"}
IsAuthorizationError(e) == e.type \in {"CredentialsError", "AccessTokenRefreshError"}

-----------------------------------------------------------------------------
(* JSON values: an object is its members in document order; every other    *)
(* value the model needs is null.                                          *)

JsonObject(members) == [kind |-> "object", members |-> members]
JsonNull == [kind |-> "null", members |-> <<>>]
Member(k, v) == [k |-> k, v |-> v]

\* bool(value): None and the empty dict are falsy.
Bool(v) == v.kind = "object" /\ Len(v.members) > 0

\* The order of the keys under sort_keys=True.
KeyOrder == <<"access_token", "email", "error", "expires_in", "scope",
              "token_expiry">>
KeyRank(k) == CHOOSE i \in 1..Len(KeyOrder) : KeyOrder[i] = k

RECURSIVE Insert(_, _)
Insert(m, sorted) ==
    IF sorted = <<>> THEN <<m>>
    ELSE IF KeyRank(m.k) <= KeyRank(Head(sorted).k) THEN <<m>> \o sorted
    ELSE <<Head(sorted)>> \o Insert(m, Tail(sorted))

RECURSIVE SortKeys(_)
SortKeys(members) ==
    IF members = <<>> THEN <<>>
    ELSE Insert(Head(members), SortKeys(Tail(members)))

RECURSIVE Join(_, _)
Join(sep, strs) ==
    IF strs = <<>> THEN ""
    ELSE IF Len(strs) = 1 THEN strs[1]
    ELSE strs[1] \o sep \o Join(sep, Tail(strs))

\* json.dumps(data, sort_keys=True, indent=4, separators=(',', ': '))
PrettyJson(data) ==
    IF data.kind = "null" THEN "null"
    ELSE IF data.members = <<>> THEN "{}"
    ELSE LET ms == SortKeys(data.members)
             lines == [i \in 1..Len(ms) |->
                          "    " \o Quote(ms[i].k) \o ": " \o ms[i].v]
         IN  "{\n" \o Join(",\n", lines) \o "\n}"

\* json.dumps(data, sort_keys=True, separators=(',', ':'))
CompactJson(data) ==
    IF data.kind = "null" THEN "null"
    ELSE LET ms == SortKeys(data.members)
             items == [i \in 1..Len(ms) |-> Quote(ms[i].k) \o ":" \o ms[i].v]
         IN  "{" \o Join(",", items) \o "}"

\* The response bodies the model draws from, and json.loads of each.
BodyEmpty == "{}"
BodyInfo == "{\"scope\": \"https://www.googleapis.com/auth/bigquery\", \"expires_in\": 3520, \"email\": \"user@gmail.com\"}"
BodyError == "{\"error\": \"invalid_token\"}"
BodyNull == "null"
BodyHtml == "<html>Service Unavailable</html>"
Bodies == {BodyEmpty, BodyInfo, BodyError, BodyNull, BodyHtml}

JsonLoads(text) ==
    CASE text = BodyEmpty -> [exc |-> NoExc, val |-> JsonObject(<<>>)]
      [] text = BodyInfo ->
            [exc |-> NoExc,
             val |-> JsonObject(<<
                 Member("scope", Quote("https://www.googleapis.com/auth/bigquery")),
                 Member("expires_in", "3520"),
                 Member("email", Quote("user@gmail.com"))>>)]
      [] text = BodyError ->
            [exc |-> NoExc,
             val |-> JsonObject(<<Member("error", Quote("invalid_token"))>>)]
      [] text = BodyNull -> [exc |-> NoExc, val |-> JsonNull]
      [] OTHER ->
            [exc |-> Exc("ValueError", "No JSON object could be decoded"),
             val |-> JsonNull]

-----------------------------------------------------------------------------
(* The file system as the --json flag sees it *)

NoFile == [exists |-> FALSE, valid |-> FALSE, type |-> "", installed |-> FALSE]

FileContent(path) ==
    CASE path = "service_account.json" ->
            [exists |-> TRUE, valid |-> TRUE, type |-> "service_account",
             installed |-> FALSE]
      [] path = "client_secrets.json" ->
            [exists |-> TRUE, valid |-> TRUE, type |-> "", installed |-> TRUE]
      [] path = "web_client.json" ->
            [exists |-> TRUE, valid |-> TRUE, type |-> "", installed |-> FALSE]
      [] path = "garbage.json" ->
            [exists |-> TRUE, valid |-> FALSE, type |-> "", installed |-> FALSE]
      [] OTHER -> NoFile

JsonPaths == {"", "service_account.json", "client_secrets.json",
              "web_client.json", "garbage.json", "missing.json"}

-----------------------------------------------------------------------------
(* Pure functions of the program *)

NoClientInfo == [client_id |-> "", client_secret |-> "", user_agent |-> ""]

GetDefaultClientInfo ==
    [client_id |-> "apitools-client-id",
     client_secret |-> "apitools-client-secret",
     user_agent |-> "apitools/0.2 oauth2l/0.1"]

\* GetClientInfoFromFlags without the check for the 'installed' section.
GetClientInfoFromFlagsAnyApp(client_secrets) ==
    IF client_secrets # "" THEN
        LET f == FileContent(client_secrets) IN
        IF ~f.exists THEN
            [exc |-> Exc("ValueError", "Cannot find file: " \o client_secrets),
             val |-> NoClientInfo]
        ELSE IF ~f.valid THEN
            [exc |-> Exc("ValueError", "No JSON object could be decoded"),
             val |-> NoClientInfo]
        ELSE
            [exc |-> NoExc,
             val |-> [client_id |-> "id-of-" \o client_secrets,
                      client_secret |-> "secret-of-" \o client_secrets,
                      user_agent |-> "apitools/0.2 oauth2l/0.1"]]
    ELSE [exc |-> NoExc, val |-> GetDefaultClientInfo]

GetClientInfoFromFlags(client_secrets) ==
    IF client_secrets # "" THEN
        LET f == FileContent(client_secrets) IN
        IF ~f.exists THEN
            [exc |-> Exc("ValueError", "Cannot find file: " \o client_secrets),
             val |-> NoClientInfo]
        ELSE IF ~f.valid THEN
            [exc |-> Exc("ValueError", "No JSON object could be decoded"),
             val |-> NoClientInfo]
        ELSE IF ~f.installed THEN
            [exc |-> Exc("ValueError",
                         "Provided client ID must be for an installed app"),
             val |-> NoClientInfo]
        ELSE
            [exc |-> NoExc,
             val |-> [client_id |-> "id-of-" \o client_secrets,
                      client_secret |-> "secret-of-" \o client_secrets,
                      user_agent |-> "apitools/0.2 oauth2l/0.1"]]
    ELSE [exc |-> NoExc, val |-> GetDefaultClientInfo]

scope_prefix == "https://www.googleapis.com/auth/"

\* _ExpandScopes testing for 'http' instead of 'https://'.
ExpandScopesHttp(scopes) ==
    [i \in 1..Len(scopes) |->
        IF StartsWith(scopes[i], "http") THEN scopes[i]
        ELSE scope_prefix \o scopes[i]]

ExpandScopes(scopes) ==
    [i \in 1..Len(scopes) |->
        IF StartsWith(scopes[i], "https://") THEN scopes[i]
        ELSE scope_prefix \o scopes[i]]

\* A credentials object, as far as the program reads it.
NoCredentials == [access_token |-> "", token_expiry |-> "absent", type |-> ""]

Expiries == {"absent", "past", "future"}

ExpiryJson(e) ==
    CASE e = "past" -> Quote("2015-01-01T00:00:00Z")
      [] e = "future" -> Quote("2099-01-01T00:00:00Z")
      [] OTHER -> "null"

\* json.loads(_AsText(credentials.to_json()))
ToJson(credentials) ==
    JsonObject(<<Member("token_expiry", ExpiryJson(credentials.token_expiry)),
                 Member("access_token", Quote(credentials.access_token))>>)

\* _Format with the 'bare' and 'header' renderings exchanged.
FormatBareAsHeader(fmt, credentials) ==
    IF fmt = "bare" THEN
        [exc |-> NoExc,
         val |-> "Authorization: Bearer " \o credentials.access_token]
    ELSE IF fmt = "header" THEN
        [exc |-> NoExc, val |-> credentials.access_token]
    ELSE IF fmt = "json" THEN
        [exc |-> NoExc, val |-> PrettyJson(ToJson(credentials))]
    ELSE IF fmt = "json_compact" THEN
        [exc |-> NoExc, val |-> CompactJson(ToJson(credentials))]
    ELSE IF fmt = "pretty" THEN
        [exc |-> NoExc,
         val |-> "Fetched credentials of type:\n  " \o credentials.type
                 \o "\nAccess token:\n  " \o credentials.access_token]
    ELSE [exc |-> Exc("ValueError", "Unknown format: " \o fmt), val |-> ""]

Format(fmt, credentials) ==
    IF fmt = "bare" THEN
        [exc |-> NoExc, val |-> credentials.access_token]
    ELSE IF fmt = "header" THEN
        [exc |-> NoExc,
         val |-> "Authorization: Bearer " \o credentials.access_token]
    ELSE IF fmt = "json" THEN
        [exc |-> NoExc, val |-> PrettyJson(ToJson(credentials))]
    ELSE IF fmt = "json_compact" THEN
        [exc |-> NoExc, val |-> CompactJson(ToJson(credentials))]
    ELSE IF fmt = "pretty" THEN
        [exc |-> NoExc,
         val |-> "Fetched credentials of type:\n  " \o credentials.type
                 \o "\nAccess token:\n  " \o credentials.access_token]
    ELSE [exc |-> Exc("ValueError", "Unknown format: " \o fmt), val |-> ""]

FORMATS == {"bare", "header", "json", "json_compact", "pretty"}

OAUTH2_TOKENINFO_TEMPLATE ==
    "https://www.googleapis.com/oauth2/v2/tokeninfo?access_token="

OK == 200
BAD_REQUEST == 400

\* What MakeRequest can come back with: a response, or an exception of the
\* transport (failed).
Statuses == {OK, 204, BAD_REQUEST, 401, 503}
Responses ==
    [failed : {FALSE}, status : Statuses, content : Bodies]
        \cup {[failed |-> TRUE, status |-> 0, content |-> ""]}

\* _GetTokenInfo taking every status but OK for "token invalid".
GetTokenInfoSwallow(access_token, response) ==
    LET url == OAUTH2_TOKENINFO_TEMPLATE \o access_token IN
    IF response.failed THEN
        [exc |-> Exc("HttpLib2Error", "Unable to reach " \o url),
         val |-> JsonNull]
    ELSE IF response.status # OK THEN
        [exc |-> NoExc, val |-> JsonObject(<<>>)]
    ELSE JsonLoads(response.content)

\* _GetTokenInfo, given what MakeRequest came back with.
GetTokenInfo(access_token, response) ==
    LET url == OAUTH2_TOKENINFO_TEMPLATE \o access_token IN
    IF response.failed THEN
        [exc |-> Exc("HttpLib2Error", "Unable to reach " \o url),
         val |-> JsonNull]
    ELSE IF response.status \notin {OK, BAD_REQUEST} THEN
        [exc |-> Exc("HttpError", "HttpError accessing <" \o url \o ">"),
         val |-> JsonNull]
    ELSE IF response.status = BAD_REQUEST THEN
        [exc |-> NoExc, val |-> JsonObject(<<>>)]
    ELSE JsonLoads(response.content)

\* _TestToken taking a failed request for an invalid token.
TestTokenErrorIsInvalid(access_token, response) ==
    LET tokeninfo == GetTokenInfo(access_token, response) IN
    [exc |-> NoExc, val |-> ~Raised(tokeninfo.exc) /\ Bool(tokeninfo.val)]

\* _TestToken written as `_GetTokenInfo(access_token) is not None`: an empty
\* TokenInfo counts as valid.
TestTokenIsNotNone(access_token, response) ==
    LET tokeninfo == GetTokenInfo(access_token, response) IN
    [exc |-> tokeninfo.exc, val |-> ~Raised(tokeninfo.exc)]

\* _TestToken, given what MakeRequest came back with.
TestToken(access_token, response) ==
    LET tokeninfo == GetTokenInfo(access_token, response) IN
    [exc |-> tokeninfo.exc, val |-> Bool(tokeninfo.val)]

\* _ProcessJsonArgs with its two returns exchanged: a service-account key
\* goes out as client secrets, a client-secrets file as the key.
ProcessJsonArgsSwapped(a) ==
    IF a.json = "" THEN
        [exc |-> NoExc, client_secrets |-> "",
         service_account_json_keyfile |-> ""]
    ELSE
        LET f == FileContent(a.json) IN
        IF ~f.exists THEN
            [exc |-> Exc("IOError",
                         "[Errno 2] No such file or directory: " \o a.json),
             client_secrets |-> "", service_account_json_keyfile |-> ""]
        ELSE IF ~f.valid THEN
            [exc |-> Exc("ValueError", "Invalid JSON file: " \o a.json),
             client_secrets |-> "", service_account_json_keyfile |-> ""]
        ELSE IF f.type = "service_account" THEN
            [exc |-> NoExc, client_secrets |-> a.json,
             service_account_json_keyfile |-> ""]
        ELSE
            [exc |-> NoExc, client_secrets |-> "",
             service_account_json_keyfile |-> a.json]

ProcessJsonArgs(a) ==
    IF a.json = "" THEN
        [exc |-> NoExc, client_secrets |-> "",
         service_account_json_keyfile |-> ""]
    ELSE
        LET f == FileContent(a.json) IN
        IF ~f.exists THEN
            [exc |-> Exc("IOError",
                         "[Errno 2] No such file or directory: " \o a.json),
             client_secrets |-> "", service_account_json_keyfile |-> ""]
        ELSE IF ~f.valid THEN
            [exc |-> Exc("ValueError", "Invalid JSON file: " \o a.json),
             client_secrets |-> "", service_account_json_keyfile |-> ""]
        ELSE IF f.type = "service_account" THEN
            [exc |-> NoExc, client_secrets |-> "",
             service_account_json_keyfile |-> a.json]
        ELSE
            [exc |-> NoExc, client_secrets |-> a.json,
             service_account_json_keyfile |-> ""]

\* _FetchCredentials trusting the recorded expiry: a credential whose
\* token_expiry lies in the future is returned without being tested.
AfterGetCredentialsTrustExpiry(credentials) ==
    IF credentials.token_expiry = "future" THEN "print" ELSE "TestToken"

\* Where _FetchCredentials goes once GetCredentials has returned: line 203
\* follows unconditionally, no field of the credentials decides it.
AfterGetCredentials(credentials) == "TestToken"

\* _FetchCredentials testing the refreshed token as well.
AfterRefreshRevalidate(credentials) == "TestToken"

\* Where _FetchCredentials goes once refresh has returned: line 205 returns the
\* credentials.
AfterRefresh(credentials) == "print"

\* A cache file per output format.
CredentialsFilenamePerFormat(a) == a.credentials_format \o a.credentials_filename

\* credentials_filename = credentials_filename or args.credentials_filename,
\* where _Fetch and _Header pass no credentials_filename.
CredentialsFilename(a) == a.credentials_filename

\* The locals of _FetchCredentials before it has set them.
NoLocals ==
    [scopes |-> <<>>, credentials_filename |-> "",
     service_account_json_keyfile |-> "", client_info |-> NoClientInfo]

\* _FetchCredentials without `if not scopes: raise ValueError(...)`.
FetchCredentialsArgsUnchecked(a) ==
    LET j == ProcessJsonArgs(a) IN
    IF Raised(j.exc) THEN [exc |-> j.exc, val |-> NoLocals]
    ELSE
        LET client_info == GetClientInfoFromFlags(j.client_secrets) IN
        IF Raised(client_info.exc) THEN
            [exc |-> client_info.exc, val |-> NoLocals]
        ELSE
            [exc |-> NoExc,
             val |-> [scopes |-> ExpandScopes(a.scope),
                      credentials_filename |-> CredentialsFilename(a),
                      service_account_json_keyfile |->
                          j.service_account_json_keyfile,
                      client_info |-> client_info.val]]

\* The part of _FetchCredentials that runs before the first outside call:
\* the arguments GetCredentials is to be called with, or the exception.
FetchCredentialsArgs(a) ==
    LET j == ProcessJsonArgs(a) IN
    IF Raised(j.exc) THEN [exc |-> j.exc, val |-> NoLocals]
    ELSE
        LET client_info == GetClientInfoFromFlags(j.client_secrets) IN
        IF Raised(client_info.exc) THEN
            [exc |-> client_info.exc, val |-> NoLocals]
        ELSE
            LET scopes == ExpandScopes(a.scope) IN
            IF scopes = <<>> THEN
                [exc |-> Exc("ValueError", "No scopes provided"),
                 val |-> NoLocals]
            ELSE
                [exc |-> NoExc,
                 val |-> [scopes |-> scopes,
                          credentials_filename |-> CredentialsFilename(a),
                          service_account_json_keyfile |->
                              j.service_account_json_keyfile,
                          client_info |-> client_info.val]]

\* The rendering _Info chooses for a TokenInfo (lines 224-227): 'json' is
\* pretty-printed, every other value of args.format takes the else branch.
InfoText(format, tokeninfo) ==
    IF format = "json" THEN [exc |-> NoExc, val |-> PrettyJson(tokeninfo)]
    ELSE [exc |-> NoExc, val |-> CompactJson(tokeninfo)]

\* A Python value that is None or an integer: <<>> or <<n>>.
NoneValue == <<>>
Value(n) == <<n>>

\* main ending in `return exit_code or 1`.
SysExitNoneIsFailure(value) ==
    IF value = NoneValue \/ value[1] = 0 THEN 1 ELSE value[1]

\* sys.exit(main(...)): None is status 0, an integer is itself.
SysExit(value) == IF value = NoneValue THEN 0 ELSE value[1]

\* _Test returning the validity itself: `return _TestToken(...)`.
TestExitCodeUninverted(valid) == IF valid THEN 1 ELSE 0

\* 1 - (_TestToken(args.access_token)): True is 1, False is 0.
IntOfBool(b) == IF b THEN 1 ELSE 0
TestExitCode(valid) == 1 - IntOfBool(valid)

\* The error line without the command's name in it.
ErrorMessageUntagged(command, e) ==
    "Error encountered in operation: " \o e.msg

\* 'Error encountered in {0} operation: {1}'.format(args.command, e)
ErrorMessage(command, e) ==
    "Error encountered in " \o command \o " operation: " \o e.msg

\* str.lower() on the format names.
Lower(s) ==
    CASE s = "BARE" -> "bare"
      [] s = "HEADER" -> "header"
      [] s = "JSON" -> "json"
      [] s = "JSON_COMPACT" -> "json_compact"
      [] s = "PRETTY" -> "pretty"
      [] OTHER -> s

-----------------------------------------------------------------------------
(* The command line, as _GetParser accepts it *)

CredentialsFilenames == {""}

FetchArgs ==
    [command : {"fetch"}, scope : SeqsUpTo(ScopeArgs, MaxScopes),
     credentials_format : FORMATS, format : {""}, access_token : {""},
     json : JsonPaths, credentials_filename : CredentialsFilenames]

HeaderArgs ==
    [command : {"header"}, scope : SeqsUpTo(ScopeArgs, MaxScopes),
     credentials_format : {""}, format : {""}, access_token : {""},
     json : JsonPaths, credentials_filename : CredentialsFilenames]

InfoArgs ==
    [command : {"info"}, scope : {<<>>}, credentials_format : {""},
     format : {"json", "json_compact"}, access_token : Tokens,
     json : {""}, credentials_filename : CredentialsFilenames]

TestArgs ==
    [command : {"test"}, scope : {<<>>}, credentials_format : {""},
     format : {""}, access_token : Tokens,
     json : {""}, credentials_filename : CredentialsFilenames]

GetParser == FetchArgs \cup HeaderArgs \cup InfoArgs \cup TestArgs

\* The test subparser given the handler of header: set_defaults(func=_Header).
FuncTestIsHeader(command) ==
    CASE command = "fetch" -> "_Fetch"
      [] command = "header" -> "_Header"
      [] command = "info" -> "_Info"
      [] command = "test" -> "_Header"

\* set_defaults(func=...): the handler of each subcommand.
Func(command) ==
    CASE command = "fetch" -> "_Fetch"
      [] command = "header" -> "_Header"
      [] command = "info" -> "_Info"
      [] command = "test" -> "_Test"

-----------------------------------------------------------------------------
(* The outside world *)

Runs == DOMAIN pc

\* A call as the collaborator sees it.
Call(op, token, l) == [op |-> op, token |-> token, args |-> l]

\* apitools_base.GetCredentials: a credentials object for the arguments, read
\* from the cache or minted, or CredentialsError.
CredentialsType(l) ==
    IF l.service_account_json_keyfile # ""
    THEN "oauth2client.service_account.ServiceAccountCredentials"
    ELSE "oauth2client.client.OAuth2Credentials"

GetCredentialsAnswers(l) ==
    IF world.credentials # <<>> THEN {world.credentials[1]}
    ELSE {[exc |-> Exc("CredentialsError", "Could not create valid credentials"),
           val |-> NoCredentials]}
         \cup {[exc |-> NoExc,
                val |-> [access_token |-> t, token_expiry |-> e,
                         type |-> CredentialsType(l)]] :
               t \in Tokens, e \in Expiries}

\* apitools_base.MakeRequest on the tokeninfo URL of a token.
MakeRequestAnswers(token) ==
    IF token \in DOMAIN world.http THEN {world.http[token]} ELSE Responses

\* credentials.refresh: a new access token, or AccessTokenRefreshError.
RefreshAnswers ==
    IF world.refresh # <<>> THEN {world.refresh[1]}
    ELSE {[exc |-> Exc("AccessTokenRefreshError", "invalid_grant"),
           access_token |-> ""]}
         \cup {[exc |-> NoExc, access_token |-> t] : t \in Tokens}

-----------------------------------------------------------------------------
(* The state machine *)

InitRuns(R) ==
    /\ args \in [R -> GetParser]
    /\ pc = [r \in R |-> "main"]
    /\ locals = [r \in R |-> NoLocals]
    /\ cred = [r \in R |-> NoCredentials]
    /\ info = [r \in R |-> <<>>]
    /\ ret = [r \in R |-> NoneValue]
    /\ exc = [r \in R |-> NoExc]
    /\ stdout = [r \in R |-> <<>>]
    /\ exit = [r \in R |-> <<>>]
    /\ calls = [r \in R |-> <<>>]
    /\ world = [credentials |-> <<>>, http |-> <<>>, refresh |-> <<>>]

Init == InitRuns({1})

\* raise e
Raise(r, e) ==
    /\ exc' = [exc EXCEPT ![r] = e]
    /\ pc' = [pc EXCEPT ![r] = "raised"]

\* _FetchCredentials up to the call of GetCredentials (lines 193-198).
FetchCredentialsEnter(r) ==
    /\ pc[r] = "main"
    /\ Func(args[r].command) \in {"_Fetch", "_Header"}
    /\ LET a == FetchCredentialsArgs(args[r]) IN
       IF Raised(a.exc)
       THEN /\ Raise(r, a.exc)
            /\ UNCHANGED locals
       ELSE /\ locals' = [locals EXCEPT ![r] = a.val]
            /\ pc' = [pc EXCEPT ![r] = "GetCredentials"]
            /\ UNCHANGED exc
    /\ UNCHANGED <<args, cred, info, ret, stdout, exit, calls, world>>

\* _FetchCredentials holding a lock on the cache from before GetCredentials
\* until it returns: r waits while another invocation is in between.
UnlockedWhenAlone(r) ==
    \A q \in Runs \ {r} : pc[q] \notin {"TestToken", "refresh"}

\* What _FetchCredentials waits for before it touches the cache: nothing, it
\* takes no lock and calls GetCredentials straight away.
Unlocked(r) == TRUE

\* credentials = apitools_base.GetCredentials(...) (lines 199-202).
FetchCredentialsGet(r) ==
    /\ pc[r] = "GetCredentials"
    /\ Unlocked(r)
    /\ \E answer \in GetCredentialsAnswers(locals[r]) :
        /\ world' = [world EXCEPT !.credentials = <<answer>>]
        /\ calls' = [calls EXCEPT
                        ![r] = Append(@, Call("GetCredentials", "", locals[r]))]
        /\ IF Raised(answer.exc)
           THEN /\ Raise(r, answer.exc)
                /\ UNCHANGED cred
           ELSE /\ cred' = [cred EXCEPT ![r] = answer.val]
                /\ pc' = [pc EXCEPT ![r] = AfterGetCredentials(answer.val)]
                /\ UNCHANGED exc
    /\ UNCHANGED <<args, locals, info, ret, stdout, exit>>

\* if not _TestToken(credentials.access_token) (line 203).
FetchCredentialsTest(r) ==
    /\ pc[r] = "TestToken"
    /\ LET token == cred[r].access_token IN
       \E response \in MakeRequestAnswers(token) :
        /\ world' = [world EXCEPT !.http = (token :> response) @@ @]
        /\ calls' = [calls EXCEPT
                        ![r] = Append(@, Call("GetTokenInfo", token, NoLocals))]
        /\ LET valid == TestToken(token, response) IN
           IF Raised(valid.exc)
           THEN /\ Raise(r, valid.exc)
                /\ UNCHANGED info
           ELSE /\ info' = [info EXCEPT
                               ![r] = <<GetTokenInfo(token, response).val>>]
                /\ pc' = [pc EXCEPT
                             ![r] = IF ~valid.val THEN "refresh" ELSE "print"]
                /\ UNCHANGED exc
    /\ UNCHANGED <<args, locals, cred, ret, stdout, exit>>

\* _FetchCredentials passing over a failed refresh and returning the
\* credentials it holds.
FetchCredentialsRefreshBestEffort(r) ==
    /\ pc[r] = "refresh"
    /\ \E answer \in RefreshAnswers :
        /\ world' = [world EXCEPT !.refresh = <<answer>>]
        /\ calls' = [calls EXCEPT
                        ![r] = Append(@, Call("refresh", cred[r].access_token,
                                              NoLocals))]
        /\ cred' = [cred EXCEPT
                       ![r].access_token = IF Raised(answer.exc) THEN @
                                           ELSE answer.access_token,
                       ![r].token_expiry = IF Raised(answer.exc) THEN @
                                           ELSE "future"]
        /\ pc' = [pc EXCEPT ![r] = "print"]
        /\ UNCHANGED exc
    /\ UNCHANGED <<args, locals, info, ret, stdout, exit>>

\* credentials.refresh(apitools_base.GetHttp()) (line 204).
FetchCredentialsRefresh(r) ==
    /\ pc[r] = "refresh"
    /\ \E answer \in RefreshAnswers :
        /\ world' = [world EXCEPT !.refresh = <<answer>>]
        /\ calls' = [calls EXCEPT
                        ![r] = Append(@, Call("refresh", cred[r].access_token,
                                              NoLocals))]
        /\ IF Raised(answer.exc)
           THEN /\ Raise(r, answer.exc)
                /\ UNCHANGED cred
           ELSE /\ cred' = [cred EXCEPT
                               ![r].access_token = answer.access_token,
                               ![r].token_expiry = "future"]
                /\ pc' = [pc EXCEPT ![r] = AfterRefresh(cred'[r])]
                /\ UNCHANGED exc
    /\ UNCHANGED <<args, locals, info, ret, stdout, exit>>

\* print(text); the handler then returns value.
PrintAndReturn(r, text, value) ==
    /\ stdout' = [stdout EXCEPT ![r] = Append(@, text)]
    /\ ret' = [ret EXCEPT ![r] = value]
    /\ pc' = [pc EXCEPT ![r] = "returned"]
    /\ UNCHANGED exc

\* The handler returns value.
Return(r, value) ==
    /\ ret' = [ret EXCEPT ![r] = value]
    /\ pc' = [pc EXCEPT ![r] = "returned"]
    /\ UNCHANGED <<exc, stdout>>

\* _Fetch, once _FetchCredentials has returned (line 211).
Fetch(r) ==
    /\ pc[r] = "print"
    /\ Func(args[r].command) = "_Fetch"
    /\ LET text == Format(Lower(args[r].credentials_format), cred[r]) IN
       IF Raised(text.exc)
       THEN Raise(r, text.exc) /\ UNCHANGED <<ret, stdout>>
       ELSE PrintAndReturn(r, text.val, NoneValue)
    /\ UNCHANGED <<args, locals, cred, info, exit, calls, world>>

\* _Header, once _FetchCredentials has returned (line 216).
Header(r) ==
    /\ pc[r] = "print"
    /\ Func(args[r].command) = "_Header"
    /\ LET text == Format("header", cred[r]) IN
       IF Raised(text.exc)
       THEN Raise(r, text.exc) /\ UNCHANGED <<ret, stdout>>
       ELSE PrintAndReturn(r, text.val, NoneValue)
    /\ UNCHANGED <<args, locals, cred, info, exit, calls, world>>

\* _Info (lines 219-227).
Info(r) ==
    /\ pc[r] = "main"
    /\ Func(args[r].command) = "_Info"
    /\ LET token == args[r].access_token IN
       \E response \in MakeRequestAnswers(token) :
        /\ world' = [world EXCEPT !.http = (token :> response) @@ @]
        /\ calls' = [calls EXCEPT
                        ![r] = Append(@, Call("GetTokenInfo", token, NoLocals))]
        /\ LET tokeninfo == GetTokenInfo(token, response) IN
           IF Raised(tokeninfo.exc)
           THEN /\ Raise(r, tokeninfo.exc)
                /\ UNCHANGED <<info, ret, stdout>>
           ELSE /\ info' = [info EXCEPT ![r] = <<tokeninfo.val>>]
                /\ IF ~Bool(tokeninfo.val) THEN Return(r, Value(1))
                   ELSE PrintAndReturn(r, InfoText(args[r].format,
                                                   tokeninfo.val).val,
                                       NoneValue)
    /\ UNCHANGED <<args, locals, cred, exit>>

\* _Test (lines 230-232).
Test(r) ==
    /\ pc[r] = "main"
    /\ Func(args[r].command) = "_Test"
    /\ LET token == args[r].access_token IN
       \E response \in MakeRequestAnswers(token) :
        /\ world' = [world EXCEPT !.http = (token :> response) @@ @]
        /\ calls' = [calls EXCEPT
                        ![r] = Append(@, Call("GetTokenInfo", token, NoLocals))]
        /\ LET valid == TestToken(token, response) IN
           IF Raised(valid.exc)
           THEN /\ Raise(r, valid.exc)
                /\ UNCHANGED <<info, ret, stdout>>
           ELSE /\ info' = [info EXCEPT
                               ![r] = <<GetTokenInfo(token, response).val>>]
                /\ Return(r, Value(TestExitCode(valid.val)))
    /\ UNCHANGED <<args, locals, cred, exit>>

\* main's handler ending the process the way argparse ends it on a usage error.
MainExceptUsageStatus(r) ==
    /\ pc[r] = "raised"
    /\ stdout' = [stdout EXCEPT
                     ![r] = Append(@, ErrorMessage(args[r].command, exc[r]))]
    /\ exit' = [exit EXCEPT ![r] = <<2>>]
    /\ pc' = [pc EXCEPT ![r] = "exited"]
    /\ UNCHANGED <<args, locals, cred, info, ret, exc, calls, world>>

\* main: except BaseException as e (lines 305-308).
MainExcept(r) ==
    /\ pc[r] = "raised"
    /\ stdout' = [stdout EXCEPT
                     ![r] = Append(@, ErrorMessage(args[r].command, exc[r]))]
    /\ exit' = [exit EXCEPT ![r] = <<1>>]
    /\ pc' = [pc EXCEPT ![r] = "exited"]
    /\ UNCHANGED <<args, locals, cred, info, ret, exc, calls, world>>

\* main: return exit_code, and sys.exit of it (lines 309, 313).
MainReturn(r) ==
    /\ pc[r] = "returned"
    /\ exit' = [exit EXCEPT ![r] = <<SysExit(ret[r])>>]
    /\ pc' = [pc EXCEPT ![r] = "exited"]
    /\ UNCHANGED <<args, locals, cred, info, ret, exc, stdout, calls, world>>

Next ==
    \/ \E r \in Runs : FetchCredentialsEnter(r)
    \/ \E r \in Runs : FetchCredentialsGet(r)
    \/ \E r \in Runs : FetchCredentialsTest(r)
    \/ \E r \in Runs : FetchCredentialsRefresh(r)
    \/ \E r \in Runs : Fetch(r)
    \/ \E r \in Runs : Header(r)
    \/ \E r \in Runs : Info(r)
    \/ \E r \in Runs : Test(r)
    \/ \E r \in Runs : MainExcept(r)
    \/ \E r \in Runs : MainReturn(r)

\* Two invocations of fetch or header that differ in nothing but the output
\* format, run one after the other against the same snapshot of the outside
\* world: the second sees the cache and the answers the first one saw.
SameAcquisition(a, b) ==
    /\ a.scope = b.scope
    /\ a.json = b.json
    /\ a.credentials_filename = b.credentials_filename

\* The output formats, fetch's five and header's own, in a fixed order.
Renderings == <<"bare", "header", "json", "json_compact", "pretty">>
RenderingRank(a) ==
    IF a.command = "header" THEN Len(Renderings) + 1
    ELSE CHOOSE i \in 1..Len(Renderings) : Renderings[i] = a.credentials_format

InitPair ==
    /\ InitRuns({1, 2})
    /\ args[1] \in FetchArgs \cup HeaderArgs
    /\ args[2] \in FetchArgs \cup HeaderArgs
    /\ SameAcquisition(args[1], args[2])
    /\ RenderingRank(args[1]) < RenderingRank(args[2])

\* Invocation r runs once the invocations before it have exited.
Turn(r) == \A q \in Runs : q < r => pc[q] = "exited"

NextPair ==
    \/ \E r \in Runs : Turn(r) /\ FetchCredentialsEnter(r)
    \/ \E r \in Runs : Turn(r) /\ FetchCredentialsGet(r)
    \/ \E r \in Runs : Turn(r) /\ FetchCredentialsTest(r)
    \/ \E r \in Runs : Turn(r) /\ FetchCredentialsRefresh(r)
    \/ \E r \in Runs : Turn(r) /\ Fetch(r)
    \/ \E r \in Runs : Turn(r) /\ Header(r)
    \/ \E r \in Runs : Turn(r) /\ MainExcept(r)
    \/ \E r \in Runs : Turn(r) /\ MainReturn(r)

\* The formatters as functions of their arguments: _Format(fmt, credentials)
\* and the format dispatch of _Info, called with any format value, listed or
\* not, on any credentials or TokenInfo.
FormatKinds == FORMATS \cup {"xml", "yaml", ""}

CredentialsTypes ==
    {"oauth2client.client.OAuth2Credentials",
     "oauth2client.service_account.ServiceAccountCredentials"}

AnyCredentials ==
    [access_token : Tokens, token_expiry : Expiries, type : CredentialsTypes]

AnyTokenInfo ==
    {JsonLoads(BodyInfo).val, JsonLoads(BodyError).val}

InitFormat ==
    /\ pc = [r \in {1} |-> "format"]
    /\ \/ /\ args \in [{1} -> [command : {"fetch"}, scope : {<<>>},
                                credentials_format : FormatKinds,
                                format : {""}, access_token : {""},
                                json : {""}, credentials_filename : {""}]]
          /\ cred \in [{1} -> AnyCredentials]
          /\ info = [r \in {1} |-> <<>>]
       \/ /\ args \in [{1} -> [command : {"info"}, scope : {<<>>},
                                credentials_format : {""},
                                format : FormatKinds, access_token : Tokens,
                                json : {""}, credentials_filename : {""}]]
          /\ cred = [r \in {1} |-> NoCredentials]
          /\ info \in [{1} -> {<<t>> : t \in AnyTokenInfo}]
    /\ locals = [r \in {1} |-> NoLocals]
    /\ ret = [r \in {1} |-> NoneValue]
    /\ exc = [r \in {1} |-> NoExc]
    /\ stdout = [r \in {1} |-> <<>>]
    /\ exit = [r \in {1} |-> <<>>]
    /\ calls = [r \in {1} |-> <<>>]
    /\ world = [credentials |-> <<>>, http |-> <<>>, refresh |-> <<>>]

\* print(_Format(fmt, credentials))
FormatCredentials(r) ==
    /\ pc[r] = "format"
    /\ args[r].command = "fetch"
    /\ LET text == Format(args[r].credentials_format, cred[r]) IN
       IF Raised(text.exc)
       THEN /\ exc' = [exc EXCEPT ![r] = text.exc]
            /\ UNCHANGED stdout
       ELSE /\ stdout' = [stdout EXCEPT ![r] = Append(@, text.val)]
            /\ UNCHANGED exc
    /\ pc' = [pc EXCEPT ![r] = "formatted"]
    /\ UNCHANGED <<args, locals, cred, info, ret, exit, calls, world>>

\* The last four lines of _Info on a non-empty TokenInfo.
FormatTokenInfo(r) ==
    /\ pc[r] = "format"
    /\ args[r].command = "info"
    /\ LET text == InfoText(args[r].format, info[r][1]) IN
       IF Raised(text.exc)
       THEN /\ exc' = [exc EXCEPT ![r] = text.exc]
            /\ UNCHANGED stdout
       ELSE /\ stdout' = [stdout EXCEPT ![r] = Append(@, text.val)]
            /\ UNCHANGED exc
    /\ pc' = [pc EXCEPT ![r] = "formatted"]
    /\ UNCHANGED <<args, locals, cred, info, ret, exit, calls, world>>

NextFormat ==
    \/ \E r \in Runs : FormatCredentials(r)
    \/ \E r \in Runs : FormatTokenInfo(r)

SpecFormat == InitFormat /\ [][NextFormat]_vars

\* _ExpandScopes as a function of its argument: any list of scope tokens,
\* expanded once and then once more.
ScopeTokens ==
    {"bigquery", "userinfo.email", "https://www.googleapis.com/auth/drive",
     "https://", "https:/", "http://example.com/scope", ""}

InitExpand ==
    /\ args \in [{1} -> [command : {"fetch"},
                         scope : SeqsUpTo(ScopeTokens, MaxScopeList),
                         credentials_format : {"pretty"}, format : {""},
                         access_token : {""}, json : {""},
                         credentials_filename : {""}]]
    /\ pc = [r \in {1} |-> "expand"]
    /\ locals = [r \in {1} |-> NoLocals]
    /\ cred = [r \in {1} |-> NoCredentials]
    /\ info = [r \in {1} |-> <<>>]
    /\ ret = [r \in {1} |-> NoneValue]
    /\ exc = [r \in {1} |-> NoExc]
    /\ stdout = [r \in {1} |-> <<>>]
    /\ exit = [r \in {1} |-> <<>>]
    /\ calls = [r \in {1} |-> <<>>]
    /\ world = [credentials |-> <<>>, http |-> <<>>, refresh |-> <<>>]

\* scopes = _ExpandScopes(args.scope)
Expand(r) ==
    /\ pc[r] = "expand"
    /\ locals' = [locals EXCEPT ![r].scopes = ExpandScopes(args[r].scope)]
    /\ pc' = [pc EXCEPT ![r] = "expanded"]
    /\ UNCHANGED <<args, cred, info, ret, exc, stdout, exit, calls, world>>

\* scopes = _ExpandScopes(scopes)
ExpandAgain(r) ==
    /\ pc[r] = "expanded"
    /\ locals' = [locals EXCEPT ![r].scopes = ExpandScopes(locals[r].scopes)]
    /\ pc' = [pc EXCEPT ![r] = "reexpanded"]
    /\ UNCHANGED <<args, cred, info, ret, exc, stdout, exit, calls, world>>

NextExpand ==
    \/ \E r \in Runs : Expand(r)
    \/ \E r \in Runs : ExpandAgain(r)

SpecExpand == InitExpand /\ [][NextExpand]_vars

Spec == Init /\ [][Next]_vars

SpecPair == InitPair /\ [][NextPair]_vars

\* One invocation in which every call returns: main is sequential code with no
\* loop, so the step that is enabled is eventually taken.
SpecFair == Init /\ [][Next]_vars /\ WF_vars(Next)

\* Two fetch invocations with the same arguments, hence the same cache file
\* and scopes, running at the same time. The cache is shared and live: a
\* refresh stores the new token in it, and GetCredentials hands out what the
\* cache holds at that moment.
ConcurrentArgs ==
    {a \in FetchArgs : /\ a.scope = <<"bigquery">>
                       /\ a.json = ""
                       /\ a.credentials_format \in {"bare", "json_compact"}}

InitConcurrent ==
    /\ InitRuns({1, 2})
    /\ args[1] \in ConcurrentArgs
    /\ args[2] = args[1]

\* credentials.refresh(apitools_base.GetHttp()) (line 204), the credentials
\* writing the new token to their store.
FetchCredentialsRefreshStore(r) ==
    /\ pc[r] = "refresh"
    /\ \E answer \in RefreshAnswers :
        /\ calls' = [calls EXCEPT
                        ![r] = Append(@, Call("refresh", cred[r].access_token,
                                              NoLocals))]
        /\ IF Raised(answer.exc)
           THEN /\ Raise(r, answer.exc)
                /\ world' = [world EXCEPT !.refresh = <<answer>>]
                /\ UNCHANGED cred
           ELSE /\ cred' = [cred EXCEPT
                               ![r].access_token = answer.access_token,
                               ![r].token_expiry = "future"]
                /\ world' = [world EXCEPT
                                !.refresh = <<answer>>,
                                !.credentials = <<[exc |-> NoExc,
                                                   val |-> cred'[r]]>>]
                /\ pc' = [pc EXCEPT ![r] = AfterRefresh(cred'[r])]
                /\ UNCHANGED exc
    /\ UNCHANGED <<args, locals, info, ret, stdout, exit>>

NextConcurrent ==
    \/ \E r \in Runs : FetchCredentialsEnter(r)
    \/ \E r \in Runs : FetchCredentialsGet(r)
    \/ \E r \in Runs : FetchCredentialsTest(r)
    \/ \E r \in Runs : FetchCredentialsRefreshStore(r)
    \/ \E r \in Runs : Fetch(r)
    \/ \E r \in Runs : MainExcept(r)
    \/ \E r \in Runs : MainReturn(r)

SpecConcurrent == InitConcurrent /\ [][NextConcurrent]_vars

-----------------------------------------------------------------------------
(* What the claims speak of *)

Ops(r) == [i \in 1..Len(calls[r]) |-> calls[r][i].op]
Called(r, op) == \E i \in 1..Len(calls[r]) : calls[r][i].op = op

Acquiring(r) == args[r].command \in {"fetch", "header"}

\* GetCredentials handed a credential back to invocation r.
HandedBack(r) ==
    /\ Acquiring(r)
    /\ Called(r, "GetCredentials")
    /\ world.credentials # <<>>
    /\ ~Raised(world.credentials[1].exc)

\* The credential as the collaborator supplied it, and its access token.
Supplied == world.credentials[1].val
SuppliedToken == Supplied.access_token

\* _FetchCredentials has returned a credential to _Fetch or _Header.
Acquired(r) ==
    /\ Acquiring(r)
    /\ pc[r] \in {"print", "returned", "exited"}
    /\ ~Raised(exc[r])

\* The tokeninfo response the world gave for a token, and _GetTokenInfo of it.
Answered(token) == token \in DOMAIN world.http
Response(token) == world.http[token]
EmptyTokenInfo == JsonObject(<<>>)

\* The parsed body of a response, where the body parses.
Parses(response) == ~Raised(JsonLoads(response.content).exc)
Parsed(response) == JsonLoads(response.content).val

\* Introspection of a token returned a TokenInfo, and the TokenInfo is empty:
\* an empty mapping or, from the body `null`, no mapping at all.
Introspected(token) ==
    /\ Answered(token)
    /\ ~Response(token).failed
    /\ \/ Response(token).status = BAD_REQUEST
       \/ Response(token).status = OK /\ Parses(Response(token))
IntrospectedEmpty(token) ==
    /\ Introspected(token)
    /\ \/ Response(token).status = BAD_REQUEST
       \/ Parsed(Response(token)) \in {EmptyTokenInfo, JsonNull}

-----------------------------------------------------------------------------
\* C1: in every run of fetch or header in which _FetchCredentials returns a
\* credential, refresh was invoked before returning if and only if
\* introspection of the supplied credential's access token returned an empty
\* TokenInfo.
C1_RefreshIffEmpty ==
    \A r \in Runs :
        Acquired(r) =>
            /\ Introspected(SuppliedToken)
            /\ Called(r, "refresh") <=> IntrospectedEmpty(SuppliedToken)

\* C1 witness: a stale credential was refreshed and returned.
C1_Witness ==
    \E r \in Runs :
        /\ Acquired(r)
        /\ IntrospectedEmpty(SuppliedToken)
        /\ Ops(r) = <<"GetCredentials", "GetTokenInfo", "refresh">>

\* C2: whenever GetCredentials hands back a credential, introspection is
\* invoked on that credential's access token before the credential is returned
\* or anything is printed, whatever expiry the credential records.
C2_ValidateBeforeTrust ==
    \A r \in Runs :
        (HandedBack(r) /\ pc[r] # "TestToken") =>
            /\ Len(calls[r]) >= 2
            /\ calls[r][2] = Call("GetTokenInfo", SuppliedToken, NoLocals)

\* C2 witness: a credential whose recorded expiry lies in the future was
\* introspected all the same, and then printed.
C2_Witness ==
    \E r \in Runs :
        /\ HandedBack(r)
        /\ Supplied.token_expiry = "future"
        /\ Ops(r) = <<"GetCredentials", "GetTokenInfo">>
        /\ Len(stdout[r]) = 1
        /\ exit[r] = <<0>>

\* C3: fetch or header with zero scope arguments fails with a configuration
\* error before any outside call: GetCredentials, refresh and introspection are
\* never invoked, and no credential is printed.
C3_EmptyScopeRejected ==
    \A r \in Runs :
        (Acquiring(r) /\ args[r].scope = <<>>) =>
            /\ calls[r] = <<>>
            /\ pc[r] \in {"main", "raised", "exited"}
            /\ cred[r] = NoCredentials
            /\ pc[r] # "main" =>
                  /\ IsConfigurationError(exc[r])
                  /\ \A i \in 1..Len(stdout[r]) :
                        stdout[r][i] = ErrorMessage(args[r].command, exc[r])
            /\ pc[r] = "exited" => exit[r] = <<1>>

\* C3 witness: a fetch with no scope and no --json ended with
\* 'No scopes provided'.
C3_Witness ==
    \E r \in Runs :
        /\ Acquiring(r)
        /\ args[r].scope = <<>>
        /\ pc[r] = "exited"
        /\ exc[r] = Exc("ValueError", "No scopes provided")
        /\ exit[r] = <<1>>

\* The invocations that have made their tokeninfo request, and its token.
Requested(r) == Called(r, "GetTokenInfo")
RequestedToken(r) ==
    IF Acquiring(r) THEN SuppliedToken ELSE args[r].access_token

\* C4: _GetTokenInfo maps the status of the tokeninfo response as follows:
\* 200 returns the parsed response body, 400 returns an empty TokenInfo and
\* raises nothing, every other status raises a transport error and returns no
\* TokenInfo.
C4_StatusMapping ==
    \A r \in Runs :
        (Requested(r) /\ ~Response(RequestedToken(r)).failed) =>
            LET response == Response(RequestedToken(r)) IN
            /\ (response.status = OK /\ Parses(response)) =>
                  /\ info[r] = <<Parsed(response)>>
                  /\ ~IsTransportError(exc[r])
            /\ response.status = BAD_REQUEST =>
                  /\ info[r] = <<EmptyTokenInfo>>
                  /\ ~IsTransportError(exc[r])
                  /\ ~IsConfigurationError(exc[r])
            /\ response.status \notin {OK, BAD_REQUEST} =>
                  /\ info[r] = <<>>
                  /\ exc[r].type = "HttpError"
                  /\ IsTransportError(exc[r])

\* C4 witness: a 400 response with an error body gave an empty TokenInfo and
\* no exception.
C4_Witness ==
    \E r \in Runs :
        /\ Requested(r)
        /\ Response(RequestedToken(r)) =
              [failed |-> FALSE, status |-> BAD_REQUEST, content |-> BodyError]
        /\ info[r] = <<EmptyTokenInfo>>
        /\ ~Raised(exc[r])

-----------------------------------------------------------------------------
Commands == {"fetch", "header", "info", "test"}

\* C5: for each of the four commands, any failure raised by the handler is
\* caught by main, which prints exactly one line
\* 'Error encountered in <command> operation: <message>' tagged with the
\* command's name and yields exit status 1; the failure does not escape main.
C5_ErrorsFunnelToMain ==
    \A r \in Runs :
        Raised(exc[r]) =>
            /\ args[r].command \in Commands
            /\ pc[r] \in {"raised", "exited"}
            /\ ret[r] = NoneValue
            /\ pc[r] = "raised" => stdout[r] = <<>> /\ exit[r] = <<>>
            /\ pc[r] = "exited" =>
                  /\ stdout[r] = << "Error encountered in " \o args[r].command
                                    \o " operation: " \o exc[r].msg >>
                  /\ exit[r] = <<1>>

\* C5 witness: a transport error in the test command was caught, printed with
\* the command's name and turned into exit status 1.
C5_Witness ==
    \E r \in Runs :
        /\ args[r].command = "test"
        /\ pc[r] = "exited"
        /\ IsTransportError(exc[r])
        /\ exit[r] = <<1>>
        /\ Len(stdout[r]) = 1

\* The renderings of BodyInfo that json.dumps gives.
BodyInfoPretty ==
    "{\n    \"email\": \"user@gmail.com\",\n    \"expires_in\": 3520,\n    \"scope\": \"https://www.googleapis.com/auth/bigquery\"\n}"
BodyInfoCompact ==
    "{\"email\":\"user@gmail.com\",\"expires_in\":3520,\"scope\":\"https://www.googleapis.com/auth/bigquery\"}"
BodyErrorPretty == "{\n    \"error\": \"invalid_token\"\n}"
BodyErrorCompact == "{\"error\":\"invalid_token\"}"

Rendering(format, content) ==
    CASE content = BodyInfo /\ format = "json" -> BodyInfoPretty
      [] content = BodyInfo /\ format # "json" -> BodyInfoCompact
      [] content = BodyError /\ format = "json" -> BodyErrorPretty
      [] content = BodyError /\ format # "json" -> BodyErrorCompact
      [] OTHER -> ""

\* C6: info introspects its literal token argument; if the result is empty it
\* prints nothing and exits with status 1, otherwise it prints the formatted
\* TokenInfo exactly once and exits with status 0.
C6_Info ==
    \A r \in Runs :
        (args[r].command = "info" /\ pc[r] = "exited"
            /\ Introspected(args[r].access_token)) =>
            LET token == args[r].access_token IN
            /\ calls[r] = <<Call("GetTokenInfo", token, NoLocals)>>
            /\ IF IntrospectedEmpty(token)
               THEN stdout[r] = <<>> /\ exit[r] = <<1>>
               ELSE /\ stdout[r] =
                          <<Rendering(args[r].format, Response(token).content)>>
                    /\ exit[r] = <<0>>

\* C6 witness: info -f json_compact printed a non-empty TokenInfo once and
\* exited with status 0.
C6_Witness ==
    \E r \in Runs :
        /\ args[r].command = "info"
        /\ args[r].format = "json_compact"
        /\ pc[r] = "exited"
        /\ stdout[r] = <<BodyInfoCompact>>
        /\ exit[r] = <<0>>

\* C6 second case, reached as well: an empty TokenInfo, nothing printed,
\* status 1.
C6_WitnessEmpty ==
    \E r \in Runs :
        /\ args[r].command = "info"
        /\ pc[r] = "exited"
        /\ IntrospectedEmpty(args[r].access_token)
        /\ stdout[r] = <<>>
        /\ exit[r] = <<1>>

\* C7: test exits with status 0 if introspection of its token argument is
\* non-empty and with status 1 if it is empty, and writes nothing to stdout on
\* either path.
C7_Test ==
    \A r \in Runs :
        (args[r].command = "test" /\ pc[r] = "exited"
            /\ Introspected(args[r].access_token)) =>
            /\ exit[r] = IF IntrospectedEmpty(args[r].access_token)
                         THEN <<1>> ELSE <<0>>
            /\ stdout[r] = <<>>

\* C7 witness: test on a token whose introspection is non-empty ended with
\* status 0 and no output.
C7_Witness ==
    \E r \in Runs :
        /\ args[r].command = "test"
        /\ pc[r] = "exited"
        /\ Introspected(args[r].access_token)
        /\ ~IntrospectedEmpty(args[r].access_token)
        /\ exit[r] = <<0>>
        /\ stdout[r] = <<>>

\* C7 second case, reached as well: a 400 response, status 1, no output.
C7_WitnessInvalid ==
    \E r \in Runs :
        /\ args[r].command = "test"
        /\ pc[r] = "exited"
        /\ Response(args[r].access_token).status = BAD_REQUEST
        /\ exit[r] = <<1>>
        /\ stdout[r] = <<>>

\* C8: when introspection reports the credential's token valid, acquisition
\* returns the credential exactly as the collaborator supplied it: no refresh
\* call occurs, the access token is unchanged, and fetch -f bare prints
\* exactly that access-token string.
C8_ValidReturnedUnchanged ==
    \A r \in Runs :
        (Acquired(r) /\ Introspected(SuppliedToken)
            /\ ~IntrospectedEmpty(SuppliedToken)) =>
            /\ ~Called(r, "refresh")
            /\ world.refresh = <<>>
            /\ cred[r] = Supplied
            /\ (args[r].command = "fetch" /\ args[r].credentials_format = "bare"
                    /\ pc[r] \in {"returned", "exited"}) =>
                  stdout[r] = <<SuppliedToken>>
            /\ (args[r].command = "header" /\ pc[r] \in {"returned", "exited"}) =>
                  stdout[r] = <<"Authorization: Bearer " \o SuppliedToken>>

\* C8 witness: fetch -f bare with a valid credential printed the token and
\* made no refresh call.
C8_Witness ==
    \E r \in Runs :
        /\ args[r].command = "fetch"
        /\ args[r].credentials_format = "bare"
        /\ pc[r] = "exited"
        /\ Acquired(r)
        /\ Introspected(SuppliedToken)
        /\ ~IntrospectedEmpty(SuppliedToken)
        /\ stdout[r] = <<SuppliedToken>>
        /\ Ops(r) = <<"GetCredentials", "GetTokenInfo">>
        /\ exit[r] = <<0>>

\* C10: info and test perform no acquisition: GetCredentials and refresh are
\* never invoked, no credential is held or cached, and the only outside call
\* is a single introspection of the literal token argument.
C10_NoAcquisition ==
    \A r \in Runs :
        args[r].command \in {"info", "test"} =>
            /\ ~Called(r, "GetCredentials")
            /\ ~Called(r, "refresh")
            /\ cred[r] = NoCredentials
            /\ locals[r] = NoLocals
            /\ world.credentials = <<>>
            /\ world.refresh = <<>>
            /\ pc[r] = "main" => calls[r] = <<>>
            /\ pc[r] # "main" =>
                  calls[r] = <<Call("GetTokenInfo", args[r].access_token,
                                    NoLocals)>>

\* C10 witness: a finished test run whose only call was the introspection of
\* its argument.
C10_Witness ==
    \E r \in Runs :
        /\ args[r].command = "test"
        /\ pc[r] = "exited"
        /\ calls[r] = <<Call("GetTokenInfo", args[r].access_token, NoLocals)>>

\* _FetchCredentials of invocation r is over: it returned or raised.
AcquisitionOver(r) == pc[r] \in {"print", "returned", "raised", "exited"}

IsPrefix(s, t) == Len(s) <= Len(t) /\ SubSeq(t, 1, Len(s)) = s

\* C9: the output format never affects acquisition: two fetch or header runs
\* with the same scopes, identity and cache that differ only in the format
\* make the same collaborator calls with the same arguments, in the same
\* order, and end acquisition with the same credential or the same failure.
C9_FormatBlind ==
    \A r1, r2 \in Runs :
        (Acquiring(r1) /\ Acquiring(r2)
            /\ SameAcquisition(args[r1], args[r2])) =>
            /\ IsPrefix(calls[r1], calls[r2]) \/ IsPrefix(calls[r2], calls[r1])
            /\ (AcquisitionOver(r1) /\ AcquisitionOver(r2)) =>
                  /\ calls[r1] = calls[r2]
                  /\ cred[r1] = cred[r2]
                  /\ locals[r1] = locals[r2]
                  /\ exc[r1] = exc[r2]

\* C9 witness: fetch -f json and header, same scopes, both went through
\* GetCredentials, introspection and refresh, ended with the same credential
\* and printed different text.
C9_Witness ==
    /\ Runs = {1, 2}
    /\ args[1].command = "fetch"
    /\ args[1].credentials_format = "json"
    /\ args[2].command = "header"
    /\ pc[1] = "exited"
    /\ pc[2] = "exited"
    /\ Ops(1) = <<"GetCredentials", "GetTokenInfo", "refresh">>
    /\ calls[1] = calls[2]
    /\ cred[1] = cred[2]
    /\ stdout[1] # stdout[2]
    /\ exit[1] = <<0>>
    /\ exit[2] = <<0>>

-----------------------------------------------------------------------------
\* The arguments invocation r gave to GetCredentials.
GetCredentialsArgs(r) == calls[r][1].args

\* The ClientInfo an installed-app client-secrets file supplies.
ClientInfoOfFile(path) ==
    [client_id |-> "id-of-" \o path, client_secret |-> "secret-of-" \o path,
     user_agent |-> "apitools/0.2 oauth2l/0.1"]

\* C11: a --json file is passed to GetCredentials as the service-account key
\* if and only if it declares type == "service_account", and otherwise it
\* supplies the ClientInfo as an installed-app client-secrets file; without
\* --json the built-in default ClientInfo is used and no key is passed.  The
\* key path and the client-secrets path are never both taken for one file.
C11_IdentitySource ==
    \A r \in Runs :
        (Acquiring(r) /\ Called(r, "GetCredentials")) =>
            LET l == GetCredentialsArgs(r)
                path == args[r].json
                isKey == FileContent(path).type = "service_account"
            IN  /\ l.service_account_json_keyfile \in {"", path}
                /\ path = "" =>
                      /\ l.service_account_json_keyfile = ""
                      /\ l.client_info = GetDefaultClientInfo
                /\ path # "" =>
                      /\ l.service_account_json_keyfile = path <=> isKey
                      /\ l.client_info = ClientInfoOfFile(path) <=> ~isKey
                      /\ isKey => l.client_info = GetDefaultClientInfo
                /\ ~(/\ l.service_account_json_keyfile # ""
                     /\ l.client_info # GetDefaultClientInfo)

\* C11 witness: a service-account key file went to GetCredentials as the key,
\* with the default ClientInfo beside it.
C11_Witness ==
    \E r \in Runs :
        /\ args[r].json = "service_account.json"
        /\ Called(r, "GetCredentials")
        /\ GetCredentialsArgs(r).service_account_json_keyfile
              = "service_account.json"
        /\ GetCredentialsArgs(r).client_info = GetDefaultClientInfo

\* C11 second case, reached as well: a client-secrets file supplied the
\* ClientInfo and no key was passed.
C11_WitnessClientSecrets ==
    \E r \in Runs :
        /\ args[r].json = "client_secrets.json"
        /\ Called(r, "GetCredentials")
        /\ GetCredentialsArgs(r).service_account_json_keyfile = ""
        /\ GetCredentialsArgs(r).client_info
              = ClientInfoOfFile("client_secrets.json")

-----------------------------------------------------------------------------
\* The --json file of an invocation is missing or malformed: it does not
\* exist, is not valid JSON, or is a client-secrets file with no 'installed'
\* section.
BadJsonFile(path) ==
    /\ path # ""
    /\ LET f == FileContent(path) IN
       \/ ~f.exists
       \/ ~f.valid
       \/ f.type # "service_account" /\ ~f.installed

\* C12: when the supplied JSON key file is missing or malformed, acquisition
\* fails with a configuration error before GetCredentials or token
\* introspection is invoked.
C12_BadJsonRejected ==
    \A r \in Runs :
        (Acquiring(r) /\ BadJsonFile(args[r].json)) =>
            /\ calls[r] = <<>>
            /\ cred[r] = NoCredentials
            /\ pc[r] \in {"main", "raised", "exited"}
            /\ pc[r] # "main" =>
                  /\ IsConfigurationError(exc[r])
                  /\ exc[r].msg # "No scopes provided"
                  /\ ~FileContent(args[r].json).exists => exc[r].type = "IOError"
                  /\ FileContent(args[r].json).exists =>
                        exc[r].type = "ValueError"
            /\ pc[r] = "exited" =>
                  /\ exit[r] = <<1>>
                  /\ stdout[r] = << "Error encountered in " \o args[r].command
                                    \o " operation: " \o exc[r].msg >>

\* C12 witness: a client-secrets file without the 'installed' section ended
\* the run with a ValueError and no outside call, though scopes were given.
C12_Witness ==
    \E r \in Runs :
        /\ Acquiring(r)
        /\ args[r].json = "web_client.json"
        /\ args[r].scope # <<>>
        /\ pc[r] = "exited"
        /\ exc[r] = Exc("ValueError",
                        "Provided client ID must be for an installed app")
        /\ calls[r] = <<>>
        /\ exit[r] = <<1>>

-----------------------------------------------------------------------------
\* The rendering of a credential each listed format stands for.
CredentialRendering(fmt, c) ==
    CASE fmt = "bare" -> c.access_token
      [] fmt = "header" -> "Authorization: Bearer " \o c.access_token
      [] fmt = "json" ->
            "{\n    \"access_token\": " \o Quote(c.access_token)
            \o ",\n    \"token_expiry\": " \o ExpiryJson(c.token_expiry) \o "\n}"
      [] fmt = "json_compact" ->
            "{\"access_token\":" \o Quote(c.access_token)
            \o ",\"token_expiry\":" \o ExpiryJson(c.token_expiry) \o "}"
      [] fmt = "pretty" ->
            "Fetched credentials of type:\n  " \o c.type
            \o "\nAccess token:\n  " \o c.access_token

\* The rendering of a TokenInfo each listed format stands for.
TokenInfoRendering(fmt, t) ==
    CASE t = JsonLoads(BodyInfo).val /\ fmt = "json" -> BodyInfoPretty
      [] t = JsonLoads(BodyInfo).val /\ fmt = "json_compact" -> BodyInfoCompact
      [] t = JsonLoads(BodyError).val /\ fmt = "json" -> BodyErrorPretty
      [] t = JsonLoads(BodyError).val /\ fmt = "json_compact" -> BodyErrorCompact

\* The credentials half of C13: each of the five formats selects its own
\* rendering and any other value raises ValueError.
FormatIsTotalForCredentials ==
    \A r \in Runs :
        (pc[r] = "formatted" /\ args[r].command = "fetch") =>
            IF args[r].credentials_format \in FORMATS
            THEN /\ ~Raised(exc[r])
                 /\ stdout[r] = <<CredentialRendering(
                                     args[r].credentials_format, cred[r])>>
            ELSE /\ IsConfigurationError(exc[r])
                 /\ stdout[r] = <<>>

\* The introspection half of C13: json and json_compact select their
\* renderings and any other value raises a configuration error instead of
\* falling back to one of them.
FormatIsTotalForTokenInfo ==
    \A r \in Runs :
        (pc[r] = "formatted" /\ args[r].command = "info") =>
            IF args[r].format \in {"json", "json_compact"}
            THEN /\ ~Raised(exc[r])
                 /\ stdout[r] = <<TokenInfoRendering(args[r].format,
                                                     info[r][1])>>
            ELSE /\ IsConfigurationError(exc[r])
                 /\ stdout[r] = <<>>

-----------------------------------------------------------------------------
\* The expansion of a list is the list of the same length whose element i is
\* element i itself if it starts with 'https://' and the fixed base followed
\* by element i otherwise; every element of it starts with 'https://'.
ExpandedElementwise(input, output) ==
    /\ Len(output) = Len(input)
    /\ \A i \in 1..Len(input) :
        /\ StartsWith(input[i], "https://") => output[i] = input[i]
        /\ ~StartsWith(input[i], "https://") =>
              output[i] = "https://www.googleapis.com/auth/" \o input[i]
        /\ StartsWith(output[i], "https://")

\* C14: scope expansion is idempotent and order-preserving:
\* Expand(Expand(s)) = Expand(s) for every list s; Expand(s) has the length of
\* s with element i derived only from element i; tokens starting with
\* 'https://' pass through unchanged, every other token gets the fixed base
\* prepended, and every output scope starts with 'https://'.
C14_ExpandIdempotent ==
    /\ [](\A r \in Runs :
            pc[r] = "expanded" =>
                ExpandedElementwise(args[r].scope, locals[r].scopes))
    /\ [][\A r \in Runs :
            (pc[r] = "expanded" /\ pc'[r] = "reexpanded") =>
                locals'[r].scopes = locals[r].scopes]_vars

\* C14 witness: a short name and a full URI, in that order, expanded twice.
C14_Witness ==
    \E r \in Runs :
        /\ pc[r] = "reexpanded"
        /\ args[r].scope = <<"bigquery", "https://www.googleapis.com/auth/drive">>
        /\ locals[r].scopes = <<"https://www.googleapis.com/auth/bigquery",
                                "https://www.googleapis.com/auth/drive">>

-----------------------------------------------------------------------------
\* What the handler of each command, and no other, does: fetch and header
\* start with GetCredentials and print nothing but the credential in their
\* format; info and test make the one tokeninfo request for their argument,
\* and test prints nothing.
RanItsHandler(r) ==
    /\ Acquiring(r) =>
          /\ Len(calls[r]) >= 1 /\ calls[r][1].op = "GetCredentials"
          /\ stdout[r] =
                <<Format(IF args[r].command = "header" THEN "header"
                         ELSE args[r].credentials_format, cred[r]).val>>
    /\ args[r].command \in {"info", "test"} =>
          /\ calls[r] = <<Call("GetTokenInfo", args[r].access_token, NoLocals)>>
          /\ args[r].command = "test" => stdout[r] = <<>>
          /\ args[r].command = "info" => Len(stdout[r]) <= 1

\* fetch or header printed a credential, info printed a non-empty TokenInfo,
\* or test found the token valid.
Succeeded(r) ==
    /\ ~Raised(exc[r])
    /\ RanItsHandler(r)
    /\ Acquiring(r) => Len(stdout[r]) = 1
    /\ args[r].command \in {"info", "test"} =>
          /\ Introspected(args[r].access_token)
          /\ ~IntrospectedEmpty(args[r].access_token)
    /\ args[r].command = "info" => Len(stdout[r]) = 1

\* The token of info or test is invalid (its introspection is empty), or an
\* error was caught.
Failed(r) ==
    \/ Raised(exc[r])
    \/ /\ args[r].command \in {"info", "test"}
       /\ RanItsHandler(r)
       /\ IntrospectedEmpty(args[r].access_token)
       /\ stdout[r] = <<>>

ExitStatus(r) ==
    /\ exit[r] \in {<<>>, <<0>>, <<1>>}
    /\ exit[r] # <<>> <=> pc[r] = "exited"
    /\ pc[r] = "exited" =>
          /\ args[r].command \in Commands
          /\ exit[r] = <<0>> <=> Succeeded(r)
          /\ exit[r] = <<1>> <=> Failed(r)

C15_WitnessFailed ==
    \E r \in Runs :
        /\ pc[r] = "exited"
        /\ Raised(exc[r])
        /\ exit[r] = <<1>>

-----------------------------------------------------------------------------
\* The outside calls of one invocation, in the only order the code makes them.
AcquisitionOrder == <<"GetCredentials", "GetTokenInfo", "refresh">>

\* The token refresh gave.
RefreshedToken == world.refresh[1].access_token

\* C16: no retry and no re-validation: within one invocation each of
\* GetCredentials, introspection and refresh is invoked at most once, and
\* introspection is never invoked after refresh: a credential returned after a
\* refresh carries the new token as it is, not introspected.
C16_NoRetry ==
    \A r \in Runs :
        /\ Acquiring(r) => IsPrefix(Ops(r), AcquisitionOrder)
        /\ ~Acquiring(r) => IsPrefix(Ops(r), <<"GetTokenInfo">>)
        /\ (Acquired(r) /\ Called(r, "refresh")) =>
              /\ calls[r][Len(calls[r])].op = "refresh"
              /\ cred[r].access_token = RefreshedToken
              /\ \A i \in 1..Len(calls[r]) :
                    calls[r][i].op = "GetTokenInfo" =>
                        calls[r][i].token = SuppliedToken
        /\ (pc[r] = "exited" /\ IsTransportError(exc[r])) =>
              Cardinality({i \in 1..Len(calls[r]) :
                              calls[r][i].op = "GetTokenInfo"}) = 1

\* C16 witness: a refreshed credential was printed although nothing was ever
\* asked about its new token.
C16_Witness ==
    \E r \in Runs :
        /\ Acquired(r)
        /\ pc[r] = "exited"
        /\ Ops(r) = AcquisitionOrder
        /\ RefreshedToken # SuppliedToken
        /\ ~Answered(RefreshedToken)
        /\ cred[r].access_token = RefreshedToken
        /\ exit[r] = <<0>>

-----------------------------------------------------------------------------
\* The tokeninfo request of the acquisition came back with a status other
\* than 200 and 400.
UnexpectedStatus(r) ==
    /\ HandedBack(r)
    /\ Requested(r)
    /\ ~Response(SuppliedToken).failed
    /\ Response(SuppliedToken).status \notin {OK, BAD_REQUEST}

\* Some line of r's output is a credential or its token: the supplied or the
\* held credential in one of the formats.
PrintedCredential(r) ==
    \E i \in 1..Len(stdout[r]) : \E fmt \in FORMATS :
        \E c \in {cred[r]} \cup {world.credentials[j].val :
                                   j \in 1..Len(world.credentials)} :
            stdout[r][i] = Format(fmt, c).val

-----------------------------------------------------------------------------
\* Some line of r's output is a credential carrying the access token t, in
\* one of the formats.
PrintsToken(r, t) ==
    \E i \in 1..Len(stdout[r]) : \E fmt \in FORMATS :
        \E c \in {x \in AnyCredentials : x.access_token = t} :
            stdout[r][i] = Format(fmt, c).val

\* Introspection of t in run r returned a non-empty TokenInfo.
IntrospectedValid(r, t) ==
    /\ \E i \in 1..Len(calls[r]) :
          calls[r][i].op = "GetTokenInfo" /\ calls[r][i].token = t
    /\ Introspected(t)
    /\ ~IntrospectedEmpty(t)

\* A refresh of run r completed without error and gave the token t.
RefreshedTo(r, t) ==
    /\ Called(r, "refresh")
    /\ ~Raised(world.refresh[1].exc)
    /\ RefreshedToken = t

C18_WitnessValid ==
    \E r \in Runs :
        /\ args[r].command = "fetch"
        /\ args[r].credentials_format = "bare"
        /\ ~Called(r, "refresh")
        /\ IntrospectedValid(r, SuppliedToken)
        /\ stdout[r] = <<SuppliedToken>>

-----------------------------------------------------------------------------
\* Invocation r is about to make an outside call of the acquisition, and the
\* call can be made at once.
AtCall(r) == pc[r] \in {"GetCredentials", "TestToken", "refresh"}
CanCall(r) ==
    CASE pc[r] = "GetCredentials" -> ENABLED FetchCredentialsGet(r)
      [] pc[r] = "TestToken" -> ENABLED FetchCredentialsTest(r)
      [] pc[r] = "refresh" -> ENABLED FetchCredentialsRefreshStore(r)
      [] OTHER -> TRUE

\* Both invocations hold the same credential, both found its token invalid,
\* and both are about to refresh it.
BothAboutToRefresh ==
    /\ pc[1] = "refresh" /\ pc[2] = "refresh"
    /\ cred[1] = cred[2]
    /\ calls[1][2] = calls[2][2]
    /\ IntrospectedEmpty(cred[1].access_token)

\* C19: no locking around the credential cache: of two concurrent fetch
\* invocations sharing the cache location and the scopes, neither ever waits
\* for the other before GetCredentials, introspection or refresh, so nothing
\* excludes the interleaving in which both obtain the same cached credential,
\* both find its token invalid and both invoke refresh on it.
C19_NoLocking ==
    /\ \A r \in Runs : AtCall(r) => CanCall(r)
    /\ BothAboutToRefresh =>
          /\ ENABLED FetchCredentialsRefreshStore(1)
          /\ ENABLED FetchCredentialsRefreshStore(2)

\* C19 witness: both invocations refreshed the same stale token, the second
\* after the first had already stored a new one.
C19_Witness ==
    /\ Ops(1) = AcquisitionOrder
    /\ Ops(2) = AcquisitionOrder
    /\ calls[1][2].token = calls[2][2].token
    /\ calls[1][3].token = calls[1][2].token
    /\ calls[2][3].token = calls[1][2].token
    /\ IntrospectedEmpty(calls[1][2].token)
    /\ RefreshedToken # calls[1][2].token
    /\ ~Raised(world.refresh[1].exc)

====
